---- MODULE Spec2Model ----
(***************************************************************************)
(* The `run` command of domain-tx-cli: six in-memory queues drained by     *)
(* setInterval daemons, a lowdb cache consulted before every external      *)
(* call, and a termination check that exits when every queue is empty.    *)
(* Words are sequences of one-character strings.  An interval callback is  *)
(* one action up to its first await; every await of a callback is a        *)
(* separate step, so that callbacks interleave where the event loop lets   *)
(* them.                                                                   *)
(***************************************************************************)
EXTENDS Integers, Sequences, FiniteSets, Bags, TLC

(***************************************************************************)
(* Words                                                                   *)
(***************************************************************************)
EMPTY == << >>
AB == <<"a", "b">>
\* a line as someone typed it, capitalised
Abc == <<"A", "b", "c">>
WALLET == <<"w", "a", "l", "l", "e", "t">>
WLLT == <<"w", "l", "l", "t">>
PURSE == <<"p", "u", "r", "s", "e">>
PORTAFOGLIO == <<"p", "o", "r", "t", "a", "f", "o", "g", "l", "i", "o">>
\* what the translation provider answers: capitalised, with a trailing "."
RawPortafoglio == <<"P", "o", "r", "t", "a", "f", "o", "g", "l", "i", "o", ".">>
RawDots == <<".", ".">>
\* what the language model answers
RawPurse == <<"P", "u", "r", "s", "e">>

LowerLetters == <<"a", "b", "c", "d", "e", "f", "g", "h", "i", "j", "k", "l", "m",
                  "n", "o", "p", "q", "r", "s", "t", "u", "v", "w", "x", "y", "z">>
UpperLetters == <<"A", "B", "C", "D", "E", "F", "G", "H", "I", "J", "K", "L", "M",
                  "N", "O", "P", "Q", "R", "S", "T", "U", "V", "W", "X", "Y", "Z">>

Range(s) == {s[i] : i \in 1..Len(s)}

\* unidecode of one character: ASCII stays, a diacritic loses its mark, some
\* characters become several
unidecodeChar(c) ==
  CASE c = "é" -> <<"e">>
    [] c = "ß" -> <<"s", "s">>
    [] OTHER -> <<c>>

RECURSIVE unidecode(_)
unidecode(s) == IF s = << >> THEN << >> ELSE unidecodeChar(Head(s)) \o unidecode(Tail(s))

\* mutation of lettersOnly: the regular expression without its g flag, which takes
\* out the first match only
lettersOnlyFirstMatch(s) ==
  LET letters == Range(LowerLetters) \cup Range(UpperLetters)
      matches == {i \in 1..Len(s) : s[i] \notin letters}
  IN  IF matches = {} THEN s
      ELSE LET first == CHOOSE i \in matches : \A j \in matches : i <= j
           IN  SubSeq(s, 1, first - 1) \o SubSeq(s, first + 1, Len(s))

\* .replace(/[^a-zA-Z]/g, "")
lettersOnly(s) == SelectSeq(s, LAMBDA c : c \in Range(LowerLetters) \cup Range(UpperLetters))

toLowerCaseChar(c) ==
  IF c \in Range(UpperLetters)
  THEN LowerLetters[CHOOSE i \in 1..Len(UpperLetters) : UpperLetters[i] = c]
  ELSE c

toLowerCase(s) == [i \in 1..Len(s) |-> toLowerCaseChar(s[i])]

\* unidecode(unidecode(x)).replace(/[^a-zA-Z]/g, "").toLowerCase()
normalize(s) == toLowerCase(lettersOnly(unidecode(unidecode(s))))

(***************************************************************************)
(* Options of `run`                                                        *)
(***************************************************************************)
minLength == 3
maxLength == 10

(***************************************************************************)
(* A JavaScript Set in insertion order                                     *)
(***************************************************************************)
has(q, x) == \E i \in 1..Len(q) : q[i] = x

\* mutation of add: the element is appended whether or not it is present
addAgain(q, x) == Append(q, x)

\* Set.prototype.add: an element already present keeps its place
add(q, x) == IF has(q, x) THEN q ELSE Append(q, x)

\* mutation of delete: the Set is cleared
deleteAll(q, x) == << >>

\* mutation of delete: the item stays in the Set, to be taken out after the await
deleteLater(q, x) == q

\* Set.prototype.delete
delete(q, x) == SelectSeq(q, LAMBDA y : y # x)

RECURSIVE addAll(_, _)
addAll(q, xs) == IF xs = << >> THEN q ELSE addAll(add(q, Head(xs)), Tail(xs))

\* .filter(Boolean) on a list of strings
filterBoolean(xs) == SelectSeq(xs, LAMBDA x : x # EMPTY)

(***************************************************************************)
(* The lowdb document.  A partition is a function from the keys it holds   *)
(* to their values; whoisCache and ratingsCache can hold a key whose       *)
(* value is undefined, the other partitions only ever hold arrays and      *)
(* records.                                                                *)
(***************************************************************************)
Undefined == "undefined"
UndefinedRating == [kind |-> "undefined", n |-> 0]
Number(n) == [kind |-> "number", n |-> n]

NoEntries == [k \in {} |-> Undefined]

\* db.data[partition][key] = value
set(cache, key, value) == [k \in DOMAIN cache \cup {key} |-> IF k = key THEN value ELSE cache[k]]

\* mutation of getAvailability: a key that holds undefined reads as taken
getAvailabilityHeld(cache, word) ==
  IF word \in DOMAIN cache
  THEN IF cache[word] = Undefined THEN "false" ELSE cache[word]
  ELSE Undefined

\* db.chain.get("whoisCache").get(word).value(): undefined for a missing key and for
\* a key that holds undefined
getAvailability(cache, word) == IF word \in DOMAIN cache THEN cache[word] ELSE Undefined

\* db.chain.get("ratingsCache").get(word).value()
getRating(cache, word) == IF word \in DOMAIN cache THEN cache[word] ELSE UndefinedRating

\* JSON.stringify leaves out a property whose value is undefined
dropUndefined(cache, undef) ==
  [k \in {x \in DOMAIN cache : cache[x] # undef} |-> cache[k]]

\* db.write() followed by db.read(): the document as a later process loads it
persisted(data) ==
  [translationCache |-> data.translationCache,
   synonymsCache |-> data.synonymsCache,
   webifiedCache |-> data.webifiedCache,
   whoisCache |-> dropUndefined(data.whoisCache, Undefined),
   ratingsCache |-> dropUndefined(data.ratingsCache, UndefinedRating)]

(***************************************************************************)
(* Translation records.  `ref` is the identity of the JavaScript object:   *)
(* Set<Translation> compares objects by identity, never by content.  An    *)
(* object held by translationCache is the one object of its key and index; *)
(* an object literal is new each time it is evaluated.                     *)
(***************************************************************************)
Italian == [name |-> "Italian", code |-> "it"]
Spanish == [name |-> "Spanish", code |-> "es"]
English == [name |-> "English", code |-> "en"]
languages == <<Italian, Spanish>>

cachedRef(key, i) == [kind |-> "translationCache", key |-> key, n |-> i]
newRef(n) == [kind |-> "literal", key |-> EMPTY, n |-> n]

Translation(word, language, raw, cleaned, ref) ==
  [word |-> word, language |-> language, raw |-> raw, cleaned |-> cleaned, ref |-> ref]

\* the content of a record, its identity left out
content(t) == [word |-> t.word, language |-> t.language, raw |-> t.raw, cleaned |-> t.cleaned]

(***************************************************************************)
(* The external collaborators, each a function of what its provider        *)
(* answered.  A result is [threw, value].                                  *)
(***************************************************************************)
Returned(v) == [threw |-> FALSE, value |-> v]
Threw(v) == [threw |-> TRUE, value |-> v]

\* translate(word, code) resolves to the parsed body ("text": [[[raw]]]; "null": a
\* falsy body) or rejects ("throw": fetch or response.json() failed)
Text(raw) == [kind |-> "text", raw |-> raw]
NullBody == [kind |-> "null", raw |-> EMPTY]
Rejects == [kind |-> "throw", raw |-> EMPTY]

RECURSIVE translationsFrom(_, _, _, _)
translationsFrom(word, key, responses, i) ==
  IF i > Len(responses) THEN << >>
  ELSE LET rest == translationsFrom(word, key, responses, i + 1)
       IN  IF responses[i].kind = "null" THEN rest
           ELSE <<Translation(normalize(word), languages[i], responses[i].raw,
                              normalize(responses[i].raw), cachedRef(key, 0))>> \o rest

\* the objects of the returned array, each with the place it has in the array
indexed(key, ts) == [i \in 1..Len(ts) |-> [ts[i] EXCEPT !.ref = cachedRef(key, i)]]

\* getTranslations: Promise.all over the languages rejects as soon as one translate
\* rejects; a falsy response is left out
getTranslations(word, responses) ==
  IF \E i \in 1..Len(responses) : responses[i].kind = "throw"
  THEN Threw(<< >>)
  ELSE Returned(indexed(word, translationsFrom(word, word, responses, 1)))

\* the array filter of getSynonyms and getWebifiedWords, after toLowerCase()
usable(list) ==
  SelectSeq([i \in 1..Len(list) |-> toLowerCase(list[i])],
            LAMBDA w : w # EMPTY /\ " " \notin Range(w))

\* a chat completion: "error" (the request rejected, .catch gives {}), "empty" (no
\* message content), "unparsable" (content that is not JSON), "list" (a JSON array)
Completion(kind, list) == [kind |-> kind, list |-> list]

\* getSynonyms: response?.choices[0] throws a TypeError on the {} of .catch
getSynonyms(completion) ==
  CASE completion.kind = "error" -> Threw(<< >>)
    [] completion.kind = "empty" -> Returned(<< >>)
    [] completion.kind = "unparsable" -> Returned(<< >>)
    [] OTHER -> Returned(usable(completion.list))

\* getWebifiedWords: the same shape as getSynonyms
getWebifiedWords(completion) ==
  CASE completion.kind = "error" -> Threw(<< >>)
    [] completion.kind = "empty" -> Returned(<< >>)
    [] completion.kind = "unparsable" -> Returned(<< >>)
    [] OTHER -> Returned(usable(completion.list))

\* rateName: JSON.parse of a missing or malformed content throws and gives -1; a
\* parsed object without a rating gives undefined
RatingAnswer(kind, n) == [kind |-> kind, n |-> n]

rateName(answer) ==
  CASE answer.kind = "error" -> Returned(Number(-1))
    [] answer.kind = "unparsable" -> Returned(Number(-1))
    [] answer.kind = "noRating" -> Returned(UndefinedRating)
    [] OTHER -> Returned(Number(answer.n))

\* mutation of checkDomainAvailability: the WHOIS request is made whatever the
\* resolver answered
checkDomainAvailabilityAlwaysWhois(dns, whois) ==
  CASE whois = "networkError" -> [threw |-> TRUE, value |-> Undefined, whoisCalls |-> 1]
    [] whois \in {"unparsable", "noSuccess"} ->
         [threw |-> FALSE, value |-> Undefined, whoisCalls |-> 1]
    [] whois = "found" -> [threw |-> FALSE, value |-> "false", whoisCalls |-> 1]
    [] OTHER -> [threw |-> FALSE, value |-> IF dns = "resolves" THEN "false" ELSE "true",
                 whoisCalls |-> 1]

\* checkDomainAvailability(word) given what dns.promises.lookup did ("resolves",
\* "fails") and what the WHOIS request did: "networkError" (fetch rejects),
\* "unparsable" (json() rejects, data is undefined), "noSuccess" (success false or
\* absent), "found", "notFound", "noResult" (success without a result).
\* whoisCalls counts the fetches of the WHOIS endpoint.
checkDomainAvailability(dns, whois) ==
  IF dns = "resolves"
  THEN [threw |-> FALSE, value |-> "false", whoisCalls |-> 0]
  ELSE CASE whois = "networkError" -> [threw |-> TRUE, value |-> Undefined, whoisCalls |-> 1]
         [] whois \in {"unparsable", "noSuccess"} ->
              [threw |-> FALSE, value |-> Undefined, whoisCalls |-> 1]
         [] whois = "found" -> [threw |-> FALSE, value |-> "false", whoisCalls |-> 1]
         [] OTHER -> [threw |-> FALSE, value |-> "true", whoisCalls |-> 1]

DnsOutcomes == {"resolves", "fails"}
WhoisOutcomes == {"networkError", "unparsable", "noSuccess", "found", "notFound", "noResult"}

(***************************************************************************)
(* What the environment can hold and answer                                *)
(***************************************************************************)
NL == "\n"

\* base-words.txt: absent, or its contents
NoFile == [exists |-> FALSE, contents |-> EMPTY]
File(contents) == [exists |-> TRUE, contents |-> contents]

Files ==
  {NoFile,
   File(WALLET),
   File(WALLET \o <<NL>>),
   File(AB),
   File(Abc)}

\* String.prototype.split("\n")
RECURSIVE split(_, _)
split(s, line) ==
  IF s = << >> THEN <<line>>
  ELSE IF Head(s) = NL THEN <<line>> \o split(Tail(s), EMPTY)
       ELSE split(Tail(s), Append(line, Head(s)))

\* what the providers answer depends on the word alone: wallet has translations and
\* no synonyms, ab has synonyms and no translations, Abc has neither
TranslateAnswers(word, language) ==
  IF word = WALLET /\ language = Italian THEN {Text(RawPortafoglio)}
  ELSE IF word = WALLET /\ language = Spanish THEN {Text(RawDots), NullBody, Rejects}
  ELSE {NullBody}

\* one answer of the translation provider for every language
TranslateAnswerLists(word) ==
  {r \in [1..Len(languages) -> {Text(RawPortafoglio), Text(RawDots), NullBody, Rejects}] :
     \A i \in 1..Len(languages) : r[i] \in TranslateAnswers(word, languages[i])}

SynonymCompletions(word) ==
  IF word # AB
  THEN {Completion("error", << >>), Completion("empty", << >>)}
  ELSE {Completion("error", << >>), Completion("list", <<RawPurse, EMPTY, PURSE>>)}

WebifyCompletions(cleaned) ==
  IF cleaned = PORTAFOGLIO
  THEN {Completion("error", << >>), Completion("list", <<WLLT>>)}
  ELSE {Completion("unparsable", << >>)}

\* the schema of the rating asks for a number, of any size
RatingAnswers(word) ==
  {RatingAnswer("rating", IF word = WLLT THEN 91 ELSE 79), RatingAnswer("rating", 150),
   RatingAnswer("error", 0), RatingAnswer("noRating", 0)}

\* db.json as `run` finds it: never written, or written by earlier runs over the
\* word wallet, one of them with --max 11
EmptyDb ==
  [translationCache |-> NoEntries, synonymsCache |-> NoEntries,
   webifiedCache |-> NoEntries, whoisCache |-> NoEntries, ratingsCache |-> NoEntries]

WarmDb ==
  [translationCache |->
     (WALLET :> indexed(WALLET, <<Translation(WALLET, Italian, RawPortafoglio, PORTAFOGLIO,
                                             cachedRef(WALLET, 0))>>)),
   synonymsCache |-> (WALLET :> <<PURSE>>),
   webifiedCache |->
     (PORTAFOGLIO :> [word |-> WALLET, language |-> Italian, raw |-> RawPortafoglio,
                      cleaned |-> PORTAFOGLIO, webifiedWords |-> <<WLLT>>]),
   whoisCache |-> (WALLET :> "true" @@ WLLT :> "true" @@ PURSE :> "false" @@
                   PORTAFOGLIO :> "true"),
   ratingsCache |-> (WALLET :> Number(79))]

Databases == {EmptyDb, WarmDb}

(***************************************************************************)
(* State                                                                   *)
(***************************************************************************)
VARIABLES
  file,                \* base-words.txt
  db,                  \* db.data
  localBaseWordCache,  \* the lines the watcher has seeded
  translationQueue, webificationQueue, synonymQueue, whoisQueue, searchQueue, ratingQueue,
  inflight,            \* per daemon, the callbacks suspended at an await
  literals,            \* how many object literals the synonym daemon has evaluated
  calls,               \* the external calls begun, as <<daemon, key>>
  printed,             \* the last "Items in Queues" report
  exited,              \* "running", or how the process ended
  probe                \* one invocation of checkDomainAvailability on its own

vars == <<file, probe, printed, db, localBaseWordCache, translationQueue, webificationQueue, synonymQueue,
          whoisQueue, searchQueue, ratingQueue, inflight, literals, calls, exited>>

queues == <<translationQueue, webificationQueue, synonymQueue, whoisQueue, searchQueue,
            ratingQueue>>

\* a suspended callback: its dequeued item, the await it is at ("call": the
\* collaborator; "write": db.write()) and the value the collaborator returned
Tick(item, phase, val) == [item |-> item, phase |-> phase, val |-> val]

suspend(daemon, tick) == [inflight EXCEPT ![daemon] = @ (+) SetToBag({tick})]
resume(daemon, tick) == [inflight EXCEPT ![daemon] = @ (-) SetToBag({tick})]
advance(daemon, tick, next) ==
  [inflight EXCEPT ![daemon] = (@ (-) SetToBag({tick})) (+) SetToBag({next})]

suspended(daemon, phase) == {t \in BagToSet(inflight[daemon]) : t.phase = phase}

called(daemon, key) == calls (+) SetToBag({<<daemon, key>>})

\* of an "Items in Queues" report, what the if after it reads: whether every
\* length it printed is 0
NothingPrinted == "nothing"
Printed(allZero) == IF allZero THEN "all 0" ELSE "some pending"

NoProbe == [pc |-> "idle", word |-> EMPTY, dns |-> "fails", whois |-> "notFound",
            threw |-> FALSE, value |-> Undefined, whoisCalls |-> 0]

Init ==
  /\ file \in Files
  /\ db \in Databases
  /\ localBaseWordCache = {}
  /\ translationQueue = << >>
  /\ webificationQueue = << >>
  /\ synonymQueue = << >>
  /\ whoisQueue = << >>
  /\ searchQueue = << >>
  /\ ratingQueue = << >>
  /\ inflight = [translation |-> EmptyBag, synonym |-> EmptyBag, webification |-> EmptyBag,
                 whois |-> EmptyBag, rating |-> EmptyBag]
  /\ literals = 0
  /\ calls = EmptyBag
  /\ printed = NothingPrinted
  /\ exited = "running"
  /\ probe = NoProbe

(***************************************************************************)
(* The watcher                                                             *)
(***************************************************************************)
\* mutation of unseen: localBaseWordCache is not consulted
unseenOrSeen(baseWords, seen) == baseWords

\* the lines the forEach seeds: those localBaseWordCache does not hold
unseen(baseWords, seen) == SelectSeq(baseWords, LAMBDA w : w \notin seen)

\* mutation of Watcher: the file is read before it is looked for, and what was read
\* of an absent file, nothing, is seeded as a line
WatcherReadsFirst ==
  /\ exited = "running"
  /\ LET baseWords == split(file.contents, EMPTY)
         seeds == unseen(baseWords, localBaseWordCache)
     IN  /\ localBaseWordCache' = localBaseWordCache \cup Range(baseWords)
         /\ translationQueue' = addAll(translationQueue, seeds)
         /\ whoisQueue' = addAll(whoisQueue, seeds)
         /\ synonymQueue' = addAll(synonymQueue, seeds)
         /\ exited' = IF file.exists THEN exited ELSE "nofile"
         /\ UNCHANGED <<file, probe, printed, db, webificationQueue, searchQueue, ratingQueue,
                        inflight, literals, calls>>

Watcher ==
  /\ exited = "running"
  /\ IF ~file.exists
     THEN /\ exited' = "nofile"
          /\ UNCHANGED <<file, probe, printed, db, localBaseWordCache, queues, inflight, literals, calls>>
     ELSE LET baseWords == split(file.contents, EMPTY)
              seeds == unseen(baseWords, localBaseWordCache)
          IN  /\ localBaseWordCache' = localBaseWordCache \cup Range(baseWords)
              /\ translationQueue' = addAll(translationQueue, seeds)
              /\ whoisQueue' = addAll(whoisQueue, seeds)
              /\ synonymQueue' = addAll(synonymQueue, seeds)
              /\ UNCHANGED <<file, probe, printed, db, webificationQueue, searchQueue, ratingQueue,
                             inflight, literals, calls, exited>>

\* base-words.txt is edited while the process runs: a line break is put after its
\* last line
Edits == {<<File(WALLET), File(WALLET \o <<NL>>)>>}

FileEdited ==
  /\ exited = "running"
  /\ \E e \in Edits : file = e[1] /\ file' = e[2]
  /\ UNCHANGED <<probe, printed, db, localBaseWordCache, queues, inflight, literals, calls, exited>>

(***************************************************************************)
(* The translation daemon                                                  *)
(***************************************************************************)
cleanedOf(translations) == [i \in 1..Len(translations) |-> translations[i].cleaned]

\* mutation of TranslationFanOut: the cleaned form is added without `if (cleaned)`
TranslationFanOutUnguarded(translations) ==
  /\ webificationQueue' = addAll(webificationQueue, translations)
  /\ whoisQueue' = addAll(whoisQueue, cleanedOf(translations))

\* translations.forEach: the record to the webifier, its cleaned form to whois
TranslationFanOut(translations) ==
  /\ webificationQueue' = addAll(webificationQueue, translations)
  /\ whoisQueue' = addAll(whoisQueue, filterBoolean(cleanedOf(translations)))

TranslationTick ==
  /\ exited = "running"
  /\ IF translationQueue = << >> \/ Head(translationQueue) = EMPTY
     THEN UNCHANGED vars
     ELSE LET word == Head(translationQueue)
          IN  /\ translationQueue' = delete(translationQueue, word)
              /\ IF word \in DOMAIN db.translationCache
                 THEN /\ TranslationFanOut(db.translationCache[word])
                      /\ UNCHANGED <<inflight, calls>>
                 ELSE /\ inflight' = suspend("translation", Tick(word, "call", << >>))
                      /\ calls' = called("translation", word)
                      /\ UNCHANGED <<webificationQueue, whoisQueue>>
              /\ UNCHANGED <<file, probe, printed, db, localBaseWordCache, synonymQueue, searchQueue,
                             ratingQueue, literals, exited>>

\* getTranslations settles.  The callback has no try/catch: a rejection is an
\* unhandled rejection, which ends the process.
TranslationReturns ==
  /\ exited = "running"
  /\ \E t \in suspended("translation", "call") :
       \E responses \in TranslateAnswerLists(t.item) :
         LET r == getTranslations(t.item, responses)
         IN  IF r.threw
             THEN /\ exited' = "crashed"
                  /\ UNCHANGED <<db, inflight>>
             ELSE /\ db' = [db EXCEPT !.translationCache = set(@, t.item, r.value)]
                  /\ inflight' = advance("translation", t, Tick(t.item, "write", r.value))
                  /\ UNCHANGED exited
  /\ UNCHANGED <<file, probe, printed, localBaseWordCache, queues, literals, calls>>

TranslationWritten ==
  /\ exited = "running"
  /\ \E t \in suspended("translation", "write") :
       /\ inflight' = resume("translation", t)
       /\ TranslationFanOut(t.val)
  /\ UNCHANGED <<file, probe, printed, db, localBaseWordCache, translationQueue, synonymQueue, searchQueue,
                 ratingQueue, literals, calls, exited>>

(***************************************************************************)
(* The synonym daemon                                                      *)
(***************************************************************************)
\* the object literal of the forEach: a new object for every synonym
synonymRecords(words, n) ==
  [i \in 1..Len(words) |-> Translation(words[i], English, words[i], words[i], newRef(n + i))]

\* mutation of SynonymFanOut: the synonyms go to whois and not to the webifier
SynonymFanOutWhoisOnly(synonyms) ==
  LET words == filterBoolean(synonyms)
  IN  /\ whoisQueue' = addAll(whoisQueue, words)
      /\ webificationQueue' = webificationQueue
      /\ literals' = literals + Len(words)

SynonymFanOut(synonyms) ==
  LET words == filterBoolean(synonyms)
  IN  /\ whoisQueue' = addAll(whoisQueue, words)
      /\ webificationQueue' = addAll(webificationQueue, synonymRecords(words, literals))
      /\ literals' = literals + Len(words)

SynonymTick ==
  /\ exited = "running"
  /\ IF synonymQueue = << >> \/ Head(synonymQueue) = EMPTY
     THEN UNCHANGED vars
     ELSE LET word == Head(synonymQueue)
          IN  /\ synonymQueue' = delete(synonymQueue, word)
              /\ IF word \in DOMAIN db.synonymsCache
                 THEN /\ SynonymFanOut(db.synonymsCache[word])
                      /\ UNCHANGED <<inflight, calls>>
                 ELSE /\ inflight' = suspend("synonym", Tick(word, "call", << >>))
                      /\ calls' = called("synonym", word)
                      /\ UNCHANGED <<webificationQueue, whoisQueue, literals>>
              /\ UNCHANGED <<file, probe, printed, db, localBaseWordCache, translationQueue, searchQueue,
                             ratingQueue, exited>>

\* getSynonyms settles; what it throws is caught and logged, and the callback ends
SynonymReturns ==
  /\ exited = "running"
  /\ \E t \in suspended("synonym", "call") :
       \E completion \in SynonymCompletions(t.item) :
         LET r == getSynonyms(completion)
         IN  IF r.threw
             THEN /\ inflight' = resume("synonym", t)
                  /\ UNCHANGED db
             ELSE /\ db' = [db EXCEPT !.synonymsCache = set(@, t.item, r.value)]
                  /\ inflight' = advance("synonym", t, Tick(t.item, "write", r.value))
  /\ UNCHANGED <<file, probe, printed, localBaseWordCache, queues, literals, calls, exited>>

SynonymWritten ==
  /\ exited = "running"
  /\ \E t \in suspended("synonym", "write") :
       /\ inflight' = resume("synonym", t)
       /\ SynonymFanOut(t.val)
  /\ UNCHANGED <<file, probe, printed, db, localBaseWordCache, translationQueue, synonymQueue, searchQueue,
                 ratingQueue, calls, exited>>

(***************************************************************************)
(* The webification daemon                                                 *)
(***************************************************************************)
\* mutation of WebificationFanOut: the variants are left out
WebificationFanOutCleanedOnly(record, webifiedWords) ==
  whoisQueue' = addAll(whoisQueue, filterBoolean(<<record.cleaned>>))

\* mutation of WebificationFanOut: without .filter(Boolean)
WebificationFanOutUnfiltered(record, webifiedWords) ==
  whoisQueue' = addAll(whoisQueue, <<record.cleaned>> \o webifiedWords)

\* [word.translation.cleaned, ...webifiedWords].filter(Boolean).forEach(add)
WebificationFanOut(record, webifiedWords) ==
  whoisQueue' = addAll(whoisQueue, filterBoolean(<<record.cleaned>> \o webifiedWords))

\* { ...word, webifiedWords }
webified(record, webifiedWords) ==
  [word |-> record.word, language |-> record.language, raw |-> record.raw,
   cleaned |-> record.cleaned, webifiedWords |-> webifiedWords]

WebificationTick ==
  /\ exited = "running"
  /\ IF webificationQueue = << >>
     THEN UNCHANGED vars
     ELSE LET word == Head(webificationQueue)
          IN  /\ webificationQueue' = delete(webificationQueue, word)
              /\ IF word.cleaned \in DOMAIN db.webifiedCache
                 THEN /\ WebificationFanOut(word, db.webifiedCache[word.cleaned].webifiedWords)
                      /\ UNCHANGED <<inflight, calls>>
                 ELSE /\ inflight' = suspend("webification", Tick(word, "call", << >>))
                      /\ calls' = called("webification", word.cleaned)
                      /\ UNCHANGED whoisQueue
              /\ UNCHANGED <<file, probe, printed, db, localBaseWordCache, translationQueue, synonymQueue,
                             searchQueue, ratingQueue, literals, exited>>

WebificationReturns ==
  /\ exited = "running"
  /\ \E t \in suspended("webification", "call") :
       \E completion \in WebifyCompletions(t.item.cleaned) :
         LET r == getWebifiedWords(completion)
         IN  IF r.threw
             THEN /\ inflight' = resume("webification", t)
                  /\ UNCHANGED db
             ELSE /\ db' = [db EXCEPT !.webifiedCache =
                                        set(@, t.item.cleaned, webified(t.item, r.value))]
                  /\ inflight' = advance("webification", t, Tick(t.item, "write", r.value))
  /\ UNCHANGED <<file, probe, printed, localBaseWordCache, queues, literals, calls, exited>>

WebificationWritten ==
  /\ exited = "running"
  /\ \E t \in suspended("webification", "write") :
       /\ inflight' = resume("webification", t)
       /\ WebificationFanOut(t.item, t.val)
  /\ UNCHANGED <<file, probe, printed, db, localBaseWordCache, translationQueue, webificationQueue,
                 synonymQueue, searchQueue, ratingQueue, literals, calls, exited>>

(***************************************************************************)
(* The whois daemon                                                        *)
(***************************************************************************)
\* mutation of outOfRange: the upper bound is not tested
outOfRangeBelowOnly(word) == Len(word) < minLength

\* word.length < minLength || word.length > maxLength
outOfRange(word) == Len(word) < minLength \/ Len(word) > maxLength

\* if (availability) ratingQueue.add(word)
WhoisFanOut(word, availability) ==
  ratingQueue' = IF availability = "true" THEN add(ratingQueue, word) ELSE ratingQueue

\* the `availability` that line 240 reads is the `let` of line 223; the result of
\* the lookup is the `const` of line 229, local to the block of the if
availabilityAtLine240(tick) == tick.outer

\* mutation of WhoisTick: whoisCache is read before the length is tested, and a
\* cached word goes on whatever its length
WhoisTickCacheFirst ==
  /\ exited = "running"
  /\ IF whoisQueue = << >> \/ Head(whoisQueue) = EMPTY
     THEN UNCHANGED vars
     ELSE LET word == Head(whoisQueue)
              availability == getAvailability(db.whoisCache, word)
          IN  /\ whoisQueue' = delete(whoisQueue, word)
              /\ IF availability # Undefined
                 THEN /\ WhoisFanOut(word, availability)
                      /\ UNCHANGED <<inflight, calls>>
                 ELSE IF outOfRange(word)
                      THEN UNCHANGED <<ratingQueue, inflight, calls>>
                      ELSE /\ inflight' = suspend("whois",
                                 [item |-> word, phase |-> "call", val |-> Undefined,
                                  outer |-> availability])
                           /\ calls' = called("whois", word)
                           /\ UNCHANGED ratingQueue
              /\ UNCHANGED <<file, probe, printed, db, localBaseWordCache, translationQueue,
                             webificationQueue, synonymQueue, searchQueue, literals, exited>>

WhoisTick ==
  /\ exited = "running"
  /\ IF whoisQueue = << >> \/ Head(whoisQueue) = EMPTY
     THEN UNCHANGED vars
     ELSE LET word == Head(whoisQueue)
              availability == getAvailability(db.whoisCache, word)
          IN  /\ whoisQueue' = delete(whoisQueue, word)
              /\ IF outOfRange(word)
                 THEN UNCHANGED <<ratingQueue, inflight, calls>>
                 ELSE IF availability = Undefined
                      THEN /\ inflight' = suspend("whois",
                                 [item |-> word, phase |-> "call", val |-> Undefined,
                                  outer |-> availability])
                           /\ calls' = called("whois", word)
                           /\ UNCHANGED ratingQueue
                      ELSE /\ WhoisFanOut(word, availability)
                           /\ UNCHANGED <<inflight, calls>>
              /\ UNCHANGED <<file, probe, printed, db, localBaseWordCache, translationQueue,
                             webificationQueue, synonymQueue, searchQueue, literals, exited>>

WhoisReturns ==
  /\ exited = "running"
  /\ \E t \in suspended("whois", "call") :
       \E dns \in DnsOutcomes, whois \in WhoisOutcomes :
         LET r == checkDomainAvailability(dns, whois)
         IN  IF r.threw
             THEN /\ inflight' = resume("whois", t)
                  /\ UNCHANGED db
             ELSE /\ db' = [db EXCEPT !.whoisCache = set(@, t.item, r.value)]
                  /\ inflight' = advance("whois", t, [t EXCEPT !.phase = "write",
                                                               !.val = r.value])
  /\ UNCHANGED <<file, probe, printed, localBaseWordCache, queues, literals, calls, exited>>

WhoisWritten ==
  /\ exited = "running"
  /\ \E t \in suspended("whois", "write") :
       /\ inflight' = resume("whois", t)
       /\ WhoisFanOut(t.item, availabilityAtLine240(t))
  /\ UNCHANGED <<file, probe, printed, db, localBaseWordCache, translationQueue, webificationQueue,
                 synonymQueue, whoisQueue, searchQueue, literals, calls, exited>>

(***************************************************************************)
(* The rating daemon                                                       *)
(***************************************************************************)
RatingTick ==
  /\ exited = "running"
  /\ IF ratingQueue = << >> \/ Head(ratingQueue) = EMPTY
     THEN UNCHANGED vars
     ELSE LET word == Head(ratingQueue)
          IN  /\ ratingQueue' = delete(ratingQueue, word)
              /\ IF getRating(db.ratingsCache, word) = UndefinedRating
                 THEN /\ inflight' = suspend("rating", Tick(word, "call", UndefinedRating))
                      /\ calls' = called("rating", word)
                 ELSE UNCHANGED <<inflight, calls>>
              /\ UNCHANGED <<file, probe, printed, db, localBaseWordCache, translationQueue,
                             webificationQueue, synonymQueue, whoisQueue, searchQueue,
                             literals, exited>>

\* mutation of RatingReturns: the rater also marks the word in whoisCache
RatingReturnsMarksWhois ==
  /\ exited = "running"
  /\ \E t \in suspended("rating", "call") :
       \E answer \in RatingAnswers(t.item) :
         LET r == rateName(answer)
         IN  /\ db' = [db EXCEPT !.ratingsCache = set(@, t.item, r.value),
                                 !.whoisCache = set(@, t.item, "false")]
             /\ inflight' = advance("rating", t, Tick(t.item, "write", r.value))
  /\ UNCHANGED <<file, probe, printed, localBaseWordCache, queues, literals, calls, exited>>

RatingReturns ==
  /\ exited = "running"
  /\ \E t \in suspended("rating", "call") :
       \E answer \in RatingAnswers(t.item) :
         LET r == rateName(answer)
         IN  /\ db' = [db EXCEPT !.ratingsCache = set(@, t.item, r.value)]
             /\ inflight' = advance("rating", t, Tick(t.item, "write", r.value))
  /\ UNCHANGED <<file, probe, printed, localBaseWordCache, queues, literals, calls, exited>>

\* mutation of RatingWritten: the rated word is passed on to the search stage
RatingWrittenFeedsSearch ==
  /\ exited = "running"
  /\ \E t \in suspended("rating", "write") :
       /\ inflight' = resume("rating", t)
       /\ searchQueue' = add(searchQueue, t.item)
  /\ UNCHANGED <<file, probe, printed, db, localBaseWordCache, translationQueue,
                 webificationQueue, synonymQueue, whoisQueue, ratingQueue, literals, calls,
                 exited>>

RatingWritten ==
  /\ exited = "running"
  /\ \E t \in suspended("rating", "write") : inflight' = resume("rating", t)
  /\ UNCHANGED <<file, probe, printed, db, localBaseWordCache, queues, literals, calls, exited>>

(***************************************************************************)
(* The diagnostics daemon                                                  *)
(***************************************************************************)
\* mutation of allQueuesEmpty: the rating queue is not looked at
allQueuesEmptyButRating ==
  /\ Len(translationQueue) = 0
  /\ Len(webificationQueue) = 0
  /\ Len(synonymQueue) = 0
  /\ Len(whoisQueue) = 0
  /\ Len(searchQueue) = 0

allQueuesEmpty ==
  /\ Len(translationQueue) = 0
  /\ Len(webificationQueue) = 0
  /\ Len(synonymQueue) = 0
  /\ Len(whoisQueue) = 0
  /\ Len(searchQueue) = 0
  /\ Len(ratingQueue) = 0

\* the periods of the watcher's and of this daemon's setInterval: the watcher has
\* polled before the first report
watcherPeriod == 3000
diagnosticsPeriod == 10000
watcherHasPolled == localBaseWordCache # {}

\* mutation of TerminationCheck: the report waits for every outstanding call
TerminationCheckWhenIdle ==
  /\ exited = "running"
  /\ watcherPeriod < diagnosticsPeriod => watcherHasPolled
  /\ \A d \in DOMAIN inflight : inflight[d] = EmptyBag
  /\ printed' = Printed(allQueuesEmpty)
  /\ exited' = IF allQueuesEmpty THEN "converged" ELSE exited
  /\ UNCHANGED <<file, probe, db, localBaseWordCache, queues, inflight, literals, calls>>

TerminationCheck ==
  /\ exited = "running"
  /\ watcherPeriod < diagnosticsPeriod => watcherHasPolled
  /\ printed' = Printed(allQueuesEmpty)
  /\ exited' = IF allQueuesEmpty THEN "converged" ELSE exited
  /\ UNCHANGED <<file, probe, db, localBaseWordCache, queues, inflight, literals, calls>>

Next ==
  \/ Watcher \/ FileEdited
  \/ TranslationTick \/ TranslationReturns \/ TranslationWritten
  \/ SynonymTick \/ SynonymReturns \/ SynonymWritten
  \/ WebificationTick \/ WebificationReturns \/ WebificationWritten
  \/ WhoisTick \/ WhoisReturns \/ WhoisWritten
  \/ RatingTick \/ RatingReturns \/ RatingWritten
  \/ TerminationCheck

Spec == Init /\ [][Next]_vars

\* a step of some daemon: of the process itself, that is, and not of whoever edits
\* base-words.txt
Daemons ==
  \/ Watcher
  \/ TranslationTick \/ TranslationReturns \/ TranslationWritten
  \/ SynonymTick \/ SynonymReturns \/ SynonymWritten
  \/ WebificationTick \/ WebificationReturns \/ WebificationWritten
  \/ WhoisTick \/ WhoisReturns \/ WhoisWritten
  \/ RatingTick \/ RatingReturns \/ RatingWritten
  \/ TerminationCheck

(***************************************************************************)
(* checkDomainAvailability on its own: one invocation for every word and   *)
(* every answer of the resolver and of the WHOIS provider                  *)
(***************************************************************************)
ProbeWords == {AB, WALLET, WLLT, PURSE, PORTAFOGLIO}

InitAvailability ==
  /\ file = NoFile
  /\ db = EmptyDb
  /\ localBaseWordCache = {}
  /\ translationQueue = << >>
  /\ webificationQueue = << >>
  /\ synonymQueue = << >>
  /\ whoisQueue = << >>
  /\ searchQueue = << >>
  /\ ratingQueue = << >>
  /\ inflight = [translation |-> EmptyBag, synonym |-> EmptyBag, webification |-> EmptyBag,
                 whois |-> EmptyBag, rating |-> EmptyBag]
  /\ literals = 0
  /\ calls = EmptyBag
  /\ printed = NothingPrinted
  /\ exited = "running"
  /\ \E word \in ProbeWords, dns \in DnsOutcomes, whois \in WhoisOutcomes :
       probe = [NoProbe EXCEPT !.pc = "called", !.word = word, !.dns = dns, !.whois = whois]

CheckDomainAvailability ==
  /\ probe.pc = "called"
  /\ LET r == checkDomainAvailability(probe.dns, probe.whois)
     IN  probe' = [probe EXCEPT !.pc = "settled", !.threw = r.threw, !.value = r.value,
                                !.whoisCalls = r.whoisCalls]
  /\ UNCHANGED <<file, printed, db, localBaseWordCache, queues, inflight, literals, calls,
                 exited>>

NextAvailability == CheckDomainAvailability

SpecAvailability == InitAvailability /\ [][NextAvailability]_vars

(***************************************************************************)
(* The `results` command: db.json is read and its ratings are listed, the  *)
(* greater first                                                           *)
(***************************************************************************)
\* Object.entries(ratings): a key is not a line number, so the entries come in the
\* order the keys were written; the document does not say which that was, and any
\* order stands for it
RECURSIVE entriesOf(_, _)
entriesOf(ratings, keys) ==
  IF keys = {} THEN << >>
  ELSE LET key == CHOOSE k \in keys : TRUE
       IN  <<<<key, ratings[key].n>>>> \o entriesOf(ratings, keys \ {key})

\* the keys are taken initial by initial, which keeps the recursion shallow
RECURSIVE entriesByInitial(_, _)
entriesByInitial(ratings, keys) ==
  IF keys = {} THEN << >>
  ELSE LET first == CHOOSE k \in keys : TRUE
           group == {k \in keys : (k = EMPTY) = (first = EMPTY) /\ (k # EMPTY => k[1] = first[1])}
       IN  entriesOf(ratings, group) \o entriesByInitial(ratings, keys \ group)

entries(ratings) == entriesByInitial(ratings, DOMAIN ratings)

\* entries.sort((a, b) => b[1] - a[1]) over the document db.read() loads
results(data) == SortSeq(entries(persisted(data).ratingsCache), LAMBDA a, b : a[2] > b[2])

\* the place of a word in the listing, 0 if it is not listed
rank(listing, word) ==
  IF \E i \in 1..Len(listing) : listing[i][1] = word
  THEN CHOOSE i \in 1..Len(listing) : listing[i][1] = word
  ELSE 0

(***************************************************************************)
(* Properties                                                              *)
(***************************************************************************)
\* the step took the head of q off: only a daemon's own callback shortens its queue
dequeued(q, q2) == q # << >> /\ Len(q2) < Len(q) /\ q2 = delete(q, Head(q))

inRange(word) == Len(word) >= minLength /\ Len(word) <= maxLength

noDuplicates(q) == \A i, j \in 1..Len(q) : q[i] = q[j] => i = j

daemons == {"translation", "synonym", "webification", "whois", "rating"}

\* the cache key of a suspended callback
keyOf(daemon, tick) == IF daemon = "webification" THEN tick.item.cleaned ELSE tick.item

\* C1: whenever a whois callback processes a word within [min, max] whose
\* availability is true, read from whoisCache or looked up by that callback, the
\* callback adds the word to the rating queue.
C1_TrueOutcomeIsRated ==
  [][/\ \A t \in suspended("whois", "write") :
          inflight' = resume("whois", t) /\ t.val = "true" => has(ratingQueue', t.item)
     /\ dequeued(whoisQueue, whoisQueue')
          /\ inRange(Head(whoisQueue))
          /\ Head(whoisQueue) \in DOMAIN db.whoisCache
          /\ db.whoisCache[Head(whoisQueue)] = "true"
        => has(ratingQueue', Head(whoisQueue))]_vars

\* C2: a callback of any of the five daemons that dequeues an item whose cache
\* partition holds a definite entry for its key begins no external call and makes
\* the daemon's enqueues from the cached value: every cached translation to the
\* webifier and its non-empty cleaned form to whois; every non-empty cached synonym
\* to whois and, as an English record, to the webifier; the cleaned form and every
\* cached variant to whois; a word within [min, max] cached as available to the
\* rater.
C2_CacheFirst ==
  [][/\ dequeued(translationQueue, translationQueue')
          /\ Head(translationQueue) \in DOMAIN db.translationCache
        => LET cached == db.translationCache[Head(translationQueue)]
           IN  /\ calls' = calls /\ inflight' = inflight
               /\ \A i \in 1..Len(cached) :
                    /\ has(webificationQueue', cached[i])
                    /\ cached[i].cleaned # EMPTY => has(whoisQueue', cached[i].cleaned)
     /\ dequeued(synonymQueue, synonymQueue')
          /\ Head(synonymQueue) \in DOMAIN db.synonymsCache
        => LET cached == db.synonymsCache[Head(synonymQueue)]
           IN  /\ calls' = calls /\ inflight' = inflight
               /\ \A i \in 1..Len(cached) :
                    cached[i] # EMPTY =>
                      /\ has(whoisQueue', cached[i])
                      /\ \E j \in 1..Len(webificationQueue') :
                           content(webificationQueue'[j]) =
                             content(Translation(cached[i], English, cached[i], cached[i],
                                                 newRef(0)))
     /\ dequeued(webificationQueue, webificationQueue')
          /\ Head(webificationQueue).cleaned \in DOMAIN db.webifiedCache
        => LET record == Head(webificationQueue)
               cached == db.webifiedCache[record.cleaned].webifiedWords
           IN  /\ calls' = calls /\ inflight' = inflight
               /\ record.cleaned # EMPTY => has(whoisQueue', record.cleaned)
               /\ \A i \in 1..Len(cached) : cached[i] # EMPTY => has(whoisQueue', cached[i])
     /\ dequeued(whoisQueue, whoisQueue')
          /\ Head(whoisQueue) \in DOMAIN db.whoisCache
          /\ db.whoisCache[Head(whoisQueue)] \in {"true", "false"}
        => /\ calls' = calls /\ inflight' = inflight
           /\ inRange(Head(whoisQueue)) /\ db.whoisCache[Head(whoisQueue)] = "true"
                => has(ratingQueue', Head(whoisQueue))
     /\ dequeued(ratingQueue, ratingQueue')
          /\ Head(ratingQueue) \in DOMAIN db.ratingsCache
          /\ db.ratingsCache[Head(ratingQueue)].kind = "number"
        => calls' = calls /\ inflight' = inflight]_vars

\* with wallet's records in db.json, the rating queue holds wllt and no longer
\* wallet, one synonym record was made, and no external call has begun: every
\* daemon has run on a cache hit
C2_Witness ==
  /\ calls = EmptyBag
  /\ literals = 1
  /\ whoisQueue = << >>
  /\ has(ratingQueue, WLLT) /\ ~has(ratingQueue, WALLET)

\* C3: no daemon begins an external call for a key while an earlier call of the
\* same daemon for the same key is outstanding, and so (the whois daemon's retries
\* of an undefined outcome aside) no key is the subject of two calls of one daemon.
C3_OneCallPerKey ==
  /\ \A d \in daemons : \A t1, t2 \in suspended(d, "call") :
       /\ CopiesIn(t1, inflight[d]) = 1
       /\ keyOf(d, t1) = keyOf(d, t2) => t1 = t2
  /\ \A c \in BagToSet(calls) : c[1] # "whois" => CopiesIn(c, calls) = 1

\* C4: a whoisCache key that holds undefined does not stop the retry: a whois
\* callback that dequeues such a word (within [min, max]) begins the lookup again,
\* and the document a later run loads does not hold the key.
C4_UndefinedIsRetried ==
  [][dequeued(whoisQueue, whoisQueue')
       /\ inRange(Head(whoisQueue))
       /\ Head(whoisQueue) \in DOMAIN db.whoisCache
       /\ db.whoisCache[Head(whoisQueue)] = Undefined
     => /\ calls' = called("whois", Head(whoisQueue))
        /\ \E t \in BagToSet(inflight'.whois) : t.item = Head(whoisQueue) /\ t.phase = "call"
        /\ Head(whoisQueue) \notin DOMAIN persisted(db).whoisCache]_vars

\* whoisCache holds undefined for purse, purse has been looked up twice, and the one
\* whois callback suspended is at the lookup of purse
C4_Witness ==
  /\ PURSE \in DOMAIN db.whoisCache /\ db.whoisCache[PURSE] = Undefined
  /\ CopiesIn(<<"whois", PURSE>>, calls) = 2
  /\ BagToSet(inflight.whois) = {[item |-> PURSE, phase |-> "call", val |-> Undefined,
                                  outer |-> Undefined]}
  /\ BagCardinality(inflight.whois) = 1

\* C5: when the DNS lookup resolves, checkDomainAvailability returns false and
\* makes no WHOIS request.
C5_DnsHitIsFalseWithoutWhois ==
  probe.pc = "settled" /\ probe.dns = "resolves"
    => ~probe.threw /\ probe.value = "false" /\ probe.whoisCalls = 0

C5_Witness == probe.pc = "settled" /\ probe.dns = "resolves" /\ probe.whois = "notFound"

\* C6: after a DNS miss the WHOIS response alone decides: found gives false, not
\* found gives true, and every WHOIS failure (network error, unparsable body,
\* success absent or false) gives undefined as the returned value.
C6_WhoisAloneDecides ==
  probe.pc = "settled" /\ probe.dns = "fails"
    => /\ probe.whois = "found" => ~probe.threw /\ probe.value = "false"
       /\ probe.whois = "notFound" => ~probe.threw /\ probe.value = "true"
       /\ probe.whois \in {"networkError", "unparsable", "noSuccess"}
            => ~probe.threw /\ probe.value = Undefined

\* C7: in the translation, synonym, whois and rating queues a pending word is
\* pending once, and no step moves a pending word: what was pending before a
\* step is, in the same order, what is pending after it, the dequeued head aside.
pendingKept(q, q2) ==
  LET kept == SelectSeq(q2, LAMBDA x : has(q, x))
  IN  kept = q \/ (q # << >> /\ kept = delete(q, Head(q)))

C7_EnqueueIsIdempotent ==
  [][\A qs \in {<<translationQueue, translationQueue'>>, <<synonymQueue, synonymQueue'>>,
                <<whoisQueue, whoisQueue'>>, <<ratingQueue, ratingQueue'>>} :
       noDuplicates(qs[2]) /\ pendingKept(qs[1], qs[2])]_vars

\* the synonym daemon has added purse to the whois queue twice (two records were
\* made) and purse is pending
C7_Witness == literals = 2 /\ has(whoisQueue, PURSE)

\* C8: the webification queue never holds two records with the same cleaned form,
\* language and source word.
C8_WebificationQueueIsUnique ==
  \A i, j \in 1..Len(webificationQueue) :
    content(webificationQueue[i]) = content(webificationQueue[j]) => i = j

\* C9, as claimed: the whois queue holds no word shorter than min or longer than max.
C9_WhoisQueueWithinRange == \A i \in 1..Len(whoisQueue) : inRange(whoisQueue[i])

\* C9, amended: no word shorter than min or longer than max is looked up by the
\* whois daemon, is the item of a suspended whois callback, or is in the rating
\* queue.
C9_OutOfRangeIsDiscarded ==
  /\ \A c \in BagToSet(calls) : c[1] = "whois" => inRange(c[2])
  /\ \A t \in BagToSet(inflight.whois) : inRange(t.item)
  /\ \A i \in 1..Len(ratingQueue) : inRange(ratingQueue[i])

\* portafoglio was translated, went through the webifier and is pending nowhere:
\* the whois daemon has dequeued it
C9_Witness ==
  /\ WALLET \in DOMAIN db.translationCache
  /\ PORTAFOGLIO \in DOMAIN db.webifiedCache
  /\ webificationQueue = << >> /\ whoisQueue = << >>
  /\ inflight.translation = EmptyBag /\ inflight.webification = EmptyBag
  /\ db # WarmDb

\* C10: the process is ended by the diagnostics daemon exactly when a report shows
\* every queue empty: it has exited with the six queues empty, and after a report
\* of all 0 it is not running.
C10_ExitsIffAllEmpty ==
  /\ exited = "converged"
       => /\ printed = Printed(TRUE)
          /\ Len(translationQueue) = 0 /\ Len(webificationQueue) = 0
          /\ Len(synonymQueue) = 0 /\ Len(whoisQueue) = 0
          /\ Len(searchQueue) = 0 /\ Len(ratingQueue) = 0
  /\ printed = Printed(TRUE) => exited = "converged"
  /\ printed = Printed(FALSE) /\ exited # "crashed"
       => exited = "running"

\* the process has exited on a report of all 0 after external calls were made
C10_Witness == exited = "converged" /\ calls # EmptyBag

\* C11: when the diagnostics daemon has ended the process, no callback of any
\* daemon is suspended between its dequeue and the end of its fan-out: no external
\* call, cache write or enqueue of a dequeued item is outstanding.
C11_ExitMeansConverged ==
  exited = "converged" => \A d \in daemons : inflight[d] = EmptyBag

\* C12: whatever lines base-words.txt holds, a run in which the timers keep firing
\* and every external call returns reaches a report of all 0 and exits: while the
\* process is running on a file that is there, some daemon has a step to take that
\* changes something.
C12_RunTerminates ==
  exited = "running" /\ file.exists => ENABLED <<Daemons>>_vars

\* C13: a run over the one word wallet from an empty db.json, in which wallet was
\* translated to portafoglio, portafoglio was webified to wllt and both wallet.com
\* and wllt.com were found free, ends with ratings for wallet and wllt in
\* ratingsCache, and `results` lists wllt before wallet.
C13_WalletEndToEnd ==
  /\ file = File(WALLET)
  /\ exited = "converged"
  /\ \A d \in daemons : inflight[d] = EmptyBag
  /\ WALLET \in DOMAIN db.translationCache
  /\ \E i \in 1..Len(db.translationCache[WALLET]) :
        db.translationCache[WALLET][i].cleaned = PORTAFOGLIO
  /\ PORTAFOGLIO \in DOMAIN db.webifiedCache
  /\ db.webifiedCache[PORTAFOGLIO].webifiedWords = <<WLLT>>
  /\ DOMAIN db.whoisCache = {WALLET, WLLT}
  /\ db.whoisCache[WALLET] = "true" /\ db.whoisCache[WLLT] = "true"
  => /\ {WALLET, WLLT} \subseteq DOMAIN persisted(db).ratingsCache
     /\ rank(results(db), WLLT) > 0
     /\ rank(results(db), WLLT) < rank(results(db), WALLET)

\* the words a step puts in a queue
added(q, q2) == {q2[i] : i \in 1..Len(q2)} \ {q[i] : i \in 1..Len(q)}

\* C14: the watcher enqueues a line only at the first poll that reads it.  Only
\* the watcher adds to the translation and synonym queues, and a line it adds was
\* not in localBaseWordCache and is in it from then on; a poll that adds lines to
\* the whois queue adds those it read for the first time; a poll of a file whose
\* lines are all in localBaseWordCache changes no queue.
C14_SeededOnce ==
  [][/\ localBaseWordCache \subseteq localBaseWordCache'
     /\ \A w \in added(translationQueue, translationQueue') \cup added(synonymQueue, synonymQueue') :
          w \notin localBaseWordCache /\ w \in localBaseWordCache'
     /\ localBaseWordCache' # localBaseWordCache
          => /\ added(whoisQueue, whoisQueue') \subseteq localBaseWordCache' \ localBaseWordCache
             /\ added(translationQueue, translationQueue') \subseteq localBaseWordCache' \ localBaseWordCache
             /\ added(synonymQueue, synonymQueue') \subseteq localBaseWordCache' \ localBaseWordCache]_vars

\* wallet was seeded and has left the three queues, a later poll has seeded the
\* empty line that an edit added, and wallet was not enqueued again
C14_Witness ==
  /\ localBaseWordCache = {WALLET, EMPTY}
  /\ translationQueue = <<EMPTY>> /\ synonymQueue = <<EMPTY>> /\ whoisQueue = <<EMPTY>>
  /\ CopiesIn(<<"translation", WALLET>>, calls) = 1
  /\ CopiesIn(<<"synonym", WALLET>>, calls) = 1

\* C15: with base-words.txt absent at the first poll, the first thing that happens
\* is that the watcher ends the process, and it ends it with every queue empty, no
\* callback begun, no external call made and the document as db.read() loaded it.
C15_AbsentFileExitsClean ==
  [][~file.exists /\ localBaseWordCache = {} /\ exited = "running"
       => /\ exited' = "nofile"
          /\ localBaseWordCache' = {}
          /\ translationQueue' = << >> /\ webificationQueue' = << >>
          /\ synonymQueue' = << >> /\ whoisQueue' = << >>
          /\ searchQueue' = << >> /\ ratingQueue' = << >>
          /\ \A d \in daemons : inflight'[d] = EmptyBag
          /\ calls' = EmptyBag
          /\ db' = db /\ db \in Databases]_vars

\* the watcher has ended the process at its first poll
C15_Witness == exited = "nofile" /\ ~file.exists /\ localBaseWordCache = {}

\* the partition a daemon caches in
cacheOf(daemon) ==
  CASE daemon = "translation" -> "translationCache"
    [] daemon = "synonym" -> "synonymsCache"
    [] daemon = "webification" -> "webifiedCache"
    [] daemon = "whois" -> "whoisCache"
    [] OTHER -> "ratingsCache"

\* this step ends the callback t at its external call, nothing written
threw(daemon, t) == inflight'[daemon] = inflight[daemon] (-) SetToBag({t})

\* this step takes the callback t from its external call to db.write() with value v
gave(daemon, t, v) ==
  inflight'[daemon] =
    (inflight[daemon] (-) SetToBag({t})) (+) SetToBag({[t EXCEPT !.phase = "write", !.val = v]})

\* the external call of t has failed in this step: the collaborator threw, or gave
\* what it gives on a failure (undefined from checkDomainAvailability, -1 from
\* rateName)
failed(daemon, t) ==
  \/ threw(daemon, t)
  \/ daemon = "translation" /\ exited' = "crashed"
  \/ daemon = "whois" /\ gave(daemon, t, Undefined)
  \/ daemon = "rating" /\ gave(daemon, t, Number(-1))

\* C16: a callback whose external call fails leaves the entry of its key as it was
\* in the document a later run loads: absent if it was absent, so that the later run
\* calls again.
C16_FailureIsNotCached ==
  [][\A d \in daemons : \A t \in suspended(d, "call") :
       failed(d, t)
         => LET key == keyOf(d, t)
                before == persisted(db)[cacheOf(d)]
                after == persisted(db')[cacheOf(d)]
            IN  IF key \in DOMAIN before
                THEN key \in DOMAIN after /\ after[key] = before[key]
                ELSE key \notin DOMAIN after]_vars

\* C17: the provider always translates wallet into Italian; whatever it does for
\* Spanish (a text, nothing, a failed request), the callback that asked comes back
\* from getTranslations with the Italian record in translationCache and the process
\* still running, to fan it out.
C17_PartialFailureKeepsTheRest ==
  [][\A t \in suspended("translation", "call") :
       t.item = WALLET /\ (exited' = "crashed" \/ \E v \in {db'.translationCache} :
                                                       /\ WALLET \in DOMAIN v
                                                       /\ gave("translation", t, v[WALLET]))
         => /\ exited' = "running"
            /\ WALLET \in DOMAIN db'.translationCache
            /\ \E i \in 1..Len(db'.translationCache[WALLET]) :
                 /\ db'.translationCache[WALLET][i].language = Italian
                 /\ db'.translationCache[WALLET][i].cleaned = PORTAFOGLIO]_vars

\* C18: an entry that holds a definite value keeps it: a translation list, a synonym
\* list, a webified record, an availability of true or false and a rating are the
\* same after every step; only an availability of undefined may be replaced.
C18_CacheIsAppendOnly ==
  [][/\ \A c \in {"translationCache", "synonymsCache", "webifiedCache"} :
          \A k \in DOMAIN db[c] : k \in DOMAIN db'[c] /\ db'[c][k] = db[c][k]
     /\ \A k \in DOMAIN db.whoisCache :
          db.whoisCache[k] # Undefined
            => k \in DOMAIN db'.whoisCache /\ db'.whoisCache[k] = db.whoisCache[k]
     /\ \A k \in DOMAIN db.ratingsCache :
          db.ratingsCache[k] # UndefinedRating
            => k \in DOMAIN db'.ratingsCache /\ db'.ratingsCache[k] = db.ratingsCache[k]]_vars

\* the keys of the external calls of a daemon that a step begins
begun(daemon) ==
  {c[2] : c \in {x \in BagToSet(calls') : x[1] = daemon /\ CopiesIn(x, calls') > CopiesIn(x, calls)}}

\* C19: a word enters the rating queue only in a step at which whoisCache holds true
\* for it, the rater is called only for the word a rating callback takes off the
\* rating queue, and no word is rated for which whoisCache holds false or undefined
\* or holds nothing.
C19_OnlyAvailableIsRated ==
  [][/\ \A w \in added(ratingQueue, ratingQueue') :
          w \in DOMAIN db.whoisCache /\ db.whoisCache[w] = "true"
     /\ \A w \in begun("rating") :
          /\ ratingQueue # << >> /\ w = Head(ratingQueue) /\ ~has(ratingQueue', w)
          /\ w \in DOMAIN db.whoisCache /\ db.whoisCache[w] = "true"]_vars

\* every queue with the daemon that takes from it, before and after a step
steps ==
  {<<"translation", translationQueue, translationQueue'>>,
   <<"synonym", synonymQueue, synonymQueue'>>,
   <<"webification", webificationQueue, webificationQueue'>>,
   <<"whois", whoisQueue, whoisQueue'>>,
   <<"search", searchQueue, searchQueue'>>,
   <<"rating", ratingQueue, ratingQueue'>>}

\* C20: a step takes at most one item off the queues altogether, and the item it
\* takes is the head of its queue; a daemon begins an external call only in a step
\* that takes the head off the daemon's own queue, so not when that queue is empty.
C20_AtMostOneDequeue ==
  [][/\ \A x \in steps :
          added(x[3], x[2]) = {} \/ (x[2] # << >> /\ added(x[3], x[2]) = {Head(x[2])})
     /\ \A x, y \in steps :
          added(x[3], x[2]) # {} /\ added(y[3], y[2]) # {} => x[1] = y[1]
     /\ \A x \in steps :
          x[1] \in daemons /\ begun(x[1]) # {}
            => x[2] # << >> /\ added(x[3], x[2]) = {Head(x[2])}]_vars

\* the whois daemon has taken wallet off its queue and begun the lookup, and
\* portafoglio and wllt, behind wallet in the queue, are still there
C20_Witness ==
  /\ whoisQueue = <<PORTAFOGLIO, WLLT>>
  /\ CopiesIn(<<"whois", WALLET>>, calls) = 1

\* a callback of a daemon other than d is suspended
otherSuspended(d) == \E e \in daemons \ {d} : inflight[e] # EmptyBag

\* the head of q is an item a callback takes: `if (!word) return` leaves "" there
takeable(q) == q # << >> /\ Head(q) # EMPTY

\* C21: while a callback of one daemon is suspended at its external call or at
\* db.write(), the watcher can poll, the diagnostics daemon can report, and every
\* other daemon with an item to take can take it: no daemon waits for the call of
\* another.
C21_StagesDoNotWait ==
  exited = "running" /\ (\E d \in daemons : inflight[d] # EmptyBag)
    => /\ ENABLED Watcher
       /\ ENABLED TerminationCheck
       /\ otherSuspended("translation") /\ takeable(translationQueue)
            => ENABLED (TranslationTick /\ dequeued(translationQueue, translationQueue'))
       /\ otherSuspended("synonym") /\ takeable(synonymQueue)
            => ENABLED (SynonymTick /\ dequeued(synonymQueue, synonymQueue'))
       /\ otherSuspended("webification") /\ webificationQueue # << >>
            => ENABLED (WebificationTick /\ dequeued(webificationQueue, webificationQueue'))
       /\ otherSuspended("whois") /\ takeable(whoisQueue)
            => ENABLED (WhoisTick /\ dequeued(whoisQueue, whoisQueue'))
       /\ otherSuspended("rating") /\ takeable(ratingQueue)
            => ENABLED (RatingTick /\ dequeued(ratingQueue, ratingQueue'))

\* callbacks of the translation, synonym and whois daemons are suspended at their
\* calls at once: each of the later two was begun while an earlier one was waiting
C21_Witness ==
  /\ suspended("translation", "call") # {}
  /\ suspended("synonym", "call") # {}
  /\ suspended("whois", "call") # {}

partitions == {"translationCache", "synonymsCache", "webifiedCache", "whoisCache", "ratingsCache"}

\* the partition c is as it was, the entry of key aside
sameBut(c, key) ==
  /\ DOMAIN db'[c] \ {key} = DOMAIN db[c] \ {key}
  /\ \A k \in DOMAIN db[c] \ {key} : db'[c][k] = db[c][k]

\* C22: a step that changes a partition of the document is the step of a callback
\* of the daemon that partition belongs to, coming back from its external call; it
\* changes the entry of that callback's key and nothing else of the document, so
\* the translation daemon writes translationCache only, the synonym daemon
\* synonymsCache only, the webifier webifiedCache only, the whois daemon whoisCache
\* only and the rater ratingsCache only.
C22_OwnPartitionOnly ==
  [][\A c \in partitions :
       db'[c] # db[c]
         => \E d \in daemons :
              /\ cacheOf(d) = c
              /\ \A e \in daemons \ {d} : inflight'[e] = inflight[e]
              /\ \A c2 \in partitions \ {c} : db'[c2] = db[c2]
              /\ \E t \in suspended(d, "call") :
                   /\ keyOf(d, t) \in DOMAIN db'[c]
                   /\ gave(d, t, IF d = "webification" THEN db'[c][keyOf(d, t)].webifiedWords
                                 ELSE db'[c][keyOf(d, t)])
                   /\ sameBut(c, keyOf(d, t))]_vars

\* a run over ab from an empty db.json has written every partition
C22_Witness ==
  /\ AB \in DOMAIN db.translationCache
  /\ AB \in DOMAIN db.synonymsCache
  /\ PURSE \in DOMAIN db.webifiedCache
  /\ PURSE \in DOMAIN db.whoisCache
  /\ PURSE \in DOMAIN db.ratingsCache

(***************************************************************************)
(* The normalisation of getTranslations on its own: applied to a string,   *)
(* and to what it gave                                                     *)
(***************************************************************************)
\* the characters of an input: a lowercase and an uppercase letter, a letter with
\* a diacritic, a letter that becomes two, punctuation and a blank
Characters == {"a", "B", "é", "ß", ".", " "}

MaxLen == 3

Strings == UNION {[1..n -> Characters] : n \in 0..MaxLen}

InitNormalize ==
  /\ file = NoFile
  /\ db = EmptyDb
  /\ localBaseWordCache = {}
  /\ translationQueue = << >>
  /\ webificationQueue = << >>
  /\ synonymQueue = << >>
  /\ whoisQueue = << >>
  /\ searchQueue = << >>
  /\ ratingQueue = << >>
  /\ inflight = [translation |-> EmptyBag, synonym |-> EmptyBag, webification |-> EmptyBag,
                 whois |-> EmptyBag, rating |-> EmptyBag]
  /\ literals = 0
  /\ calls = EmptyBag
  /\ printed = NothingPrinted
  /\ exited = "running"
  /\ \E x \in Strings : probe = [pc |-> "input", x |-> x, once |-> EMPTY, twice |-> EMPTY]

Normalize ==
  /\ probe.pc = "input"
  /\ probe' = [probe EXCEPT !.pc = "once", !.once = normalize(probe.x)]
  /\ UNCHANGED <<file, printed, db, localBaseWordCache, queues, inflight, literals, calls,
                 exited>>

NormalizeAgain ==
  /\ probe.pc = "once"
  /\ probe' = [probe EXCEPT !.pc = "twice", !.twice = normalize(probe.once)]
  /\ UNCHANGED <<file, printed, db, localBaseWordCache, queues, inflight, literals, calls,
                 exited>>

NextNormalize == Normalize \/ NormalizeAgain

SpecNormalize == InitNormalize /\ [][NextNormalize]_vars

\* lowercase ASCII letters only
normalized(word) == \A i \in 1..Len(word) : word[i] \in Range(LowerLetters)

\* C23: normalising the normalised form of a string gives the normalised form.
C23_NormalizeIsIdempotent ==
  probe.pc = "twice" => probe.twice = probe.once

\* a string with a letter that becomes two, an uppercase letter and punctuation
\* was normalised twice
C23_Witness ==
  /\ probe.pc = "twice"
  /\ probe.x = <<"ß", "B", ".">>
  /\ probe.once = <<"s", "s", "b">>

\* C24: every word pending in the translation, synonym, whois or rating queue, and
\* every key of whoisCache and ratingsCache, is a normalised word: lowercase ASCII
\* letters only, the word that normalisation leaves as it is.
C24_KeysAreNormalized ==
  /\ \A q \in {translationQueue, synonymQueue, whoisQueue, ratingQueue} :
       \A i \in 1..Len(q) : normalized(q[i]) /\ normalize(q[i]) = q[i]
  /\ \A k \in DOMAIN db.whoisCache \cup DOMAIN db.ratingsCache :
       normalized(k) /\ normalize(k) = k

\* a record whose cleaned form is w has been on the webification queue: it is
\* there, or a callback that took it off is suspended, or that callback called the
\* language model for it or found it in webifiedCache
submitted(w) ==
  \/ \E i \in 1..Len(webificationQueue) : webificationQueue[i].cleaned = w
  \/ \E t \in BagToSet(inflight.webification) : t.item.cleaned = w
  \/ <<"webification", w>> \in BagToSet(calls)
  \/ w \in DOMAIN db.webifiedCache

\* the words the run has derived from the lines it seeded: their translations'
\* cleaned forms and their synonyms
derived ==
  UNION {{db.translationCache[k][i].cleaned : i \in 1..Len(db.translationCache[k])} :
           k \in DOMAIN db.translationCache \cap localBaseWordCache}
  \cup UNION {Range(db.synonymsCache[k]) : k \in DOMAIN db.synonymsCache \cap localBaseWordCache}

\* C25: every word of the pipeline gets to the webifier: when the run has ended
\* with every queue empty and no callback suspended, a record whose cleaned form is
\* the word has been on the webification queue for every line the watcher seeded,
\* every translation and every synonym.
C25_EveryWordIsWebified ==
  exited = "converged" /\ (\A d \in daemons : inflight[d] = EmptyBag)
    => \A w \in (localBaseWordCache \cup derived) \ {EMPTY} : submitted(w)

\* the part of C25 that is about translations and synonyms
C25_DerivedWordsAreWebified ==
  exited = "converged" /\ (\A d \in daemons : inflight[d] = EmptyBag)
    => \A w \in derived \ {EMPTY} : submitted(w)

(***************************************************************************)
(* The `results` command on its own, over the db.json it finds             *)
(***************************************************************************)
\* console.log of an array: util.inspect shows its first maxArrayLength elements
\* and counts the rest ("... 4 more items")
maxArrayLength == 100

consoleLog(listing) ==
  IF Len(listing) > maxArrayLength THEN SubSeq(listing, 1, maxArrayLength) ELSE listing

\* the ratings of a few words, or of many: three-letter words, within [min, max]
FewWords == {WALLET, WLLT, PURSE, PORTAFOGLIO}
FewRatings == {Number(-1), Number(79), Number(91)}
ManyWords == {<<LowerLetters[i], LowerLetters[j], "x">> : i \in 1..8, j \in 1..13}
ManyRatings ==
  [w \in ManyWords |-> Number((7 * (CHOOSE j \in 1..26 : LowerLetters[j] = w[2])) % 101)]

ResultDocs ==
  {[EmptyDb EXCEPT !.ratingsCache = ratings] :
     ratings \in UNION {[ws -> FewRatings] : ws \in SUBSET FewWords} \cup {ManyRatings}}

InitResults ==
  /\ file = NoFile
  /\ db \in ResultDocs
  /\ localBaseWordCache = {}
  /\ translationQueue = << >>
  /\ webificationQueue = << >>
  /\ synonymQueue = << >>
  /\ whoisQueue = << >>
  /\ searchQueue = << >>
  /\ ratingQueue = << >>
  /\ inflight = [translation |-> EmptyBag, synonym |-> EmptyBag, webification |-> EmptyBag,
                 whois |-> EmptyBag, rating |-> EmptyBag]
  /\ literals = 0
  /\ calls = EmptyBag
  /\ printed = NothingPrinted
  /\ exited = "running"
  /\ probe = [pc |-> "called", read |-> db, listing |-> << >>]

\* the handler of `results`: db.read(), the sorted entries, console.log
Results ==
  /\ probe.pc = "called"
  /\ probe' = [probe EXCEPT !.pc = "printed", !.listing = consoleLog(results(db))]
  /\ exited' = "results"
  /\ UNCHANGED <<file, printed, db, localBaseWordCache, queues, inflight, literals, calls>>

NextResults == Results

SpecResults == InitResults /\ [][NextResults]_vars

\* C26: what `results` prints holds every entry of ratingsCache once, a greater
\* rating before a smaller one, and the document is as it was read.
C26_ResultsListsEveryEntry ==
  probe.pc = "printed"
    => /\ \A k \in DOMAIN db.ratingsCache :
            Cardinality({i \in 1..Len(probe.listing) :
                           probe.listing[i] = <<k, db.ratingsCache[k].n>>}) = 1
       /\ Len(probe.listing) = Cardinality(DOMAIN db.ratingsCache)
       /\ \A i, j \in 1..Len(probe.listing) : i < j => probe.listing[i][2] >= probe.listing[j][2]
       /\ db = probe.read

\* the part of C26 that holds: what is printed is in order, has no entry twice and
\* none that ratingsCache does not hold, and nothing is written
C26_ResultsAreRanked ==
  probe.pc = "printed"
    => /\ \A i \in 1..Len(probe.listing) :
            /\ probe.listing[i][1] \in DOMAIN db.ratingsCache
            /\ probe.listing[i][2] = db.ratingsCache[probe.listing[i][1]].n
       /\ \A i, j \in 1..Len(probe.listing) :
            probe.listing[i][1] = probe.listing[j][1] => i = j
       /\ Cardinality(DOMAIN db.ratingsCache) <= maxArrayLength
            => Len(probe.listing) = Cardinality(DOMAIN db.ratingsCache)
       /\ \A i, j \in 1..Len(probe.listing) : i < j => probe.listing[i][2] >= probe.listing[j][2]
       /\ db = probe.read

\* C27: every rating that ratingsCache holds, in the document as a later run or
\* `results` loads it, is a number from 0 to 100 or the -1 of a failed rating,
\* whatever the language model answered.
C27_RatingsWithinRange ==
  \A k \in DOMAIN persisted(db).ratingsCache :
    LET rating == persisted(db).ratingsCache[k]
    IN  rating.kind = "number" /\ (rating.n = -1 \/ (rating.n >= 0 /\ rating.n <= 100))

\* C28: a whois callback that takes a word shorter than min or longer than max off
\* its queue ends there: it begins no lookup, suspends at no await, writes nothing
\* to the document and adds nothing to the rating queue, whether or not whoisCache
\* holds true for the word.
C28_OutOfRangeEndsAtDequeue ==
  [][dequeued(whoisQueue, whoisQueue') /\ ~inRange(Head(whoisQueue))
       => /\ calls' = calls
          /\ inflight' = inflight
          /\ db' = db
          /\ ratingQueue' = ratingQueue
          /\ ~has(ratingQueue', Head(whoisQueue))]_vars

\* whoisCache holds true for portafoglio, of 11 letters; the translation and
\* synonym fan-outs have run from the cache, the whois queue has been emptied, and
\* portafoglio is not in the rating queue
C28_Witness ==
  /\ PORTAFOGLIO \in DOMAIN db.whoisCache /\ db.whoisCache[PORTAFOGLIO] = "true"
  /\ file = File(WALLET) /\ translationQueue = << >> /\ literals = 1
  /\ whoisQueue = << >>
  /\ ~has(ratingQueue, PORTAFOGLIO) /\ has(ratingQueue, WLLT)

\* the callbacks of a daemon that a step suspends at their external call
begins(daemon) ==
  {t \in BagToSet(inflight'[daemon]) :
     t.phase = "call" /\ CopiesIn(t, inflight'[daemon]) > CopiesIn(t, inflight[daemon])}

\* C29: the step in which a callback takes an item is the step that removes it.  A
\* callback that begins an external call does so for the head of its daemon's
\* queue, and after that step the queue is the rest of what was pending, without
\* that item; a step that shortens a queue takes off its head and nothing else.
\* So a later callback of the same daemon, begun while this one is suspended,
\* takes another entry.
C29_DequeueIsAtomic ==
  [][\A x \in steps :
       /\ x[1] \in daemons
            => \A t \in begins(x[1]) :
                 /\ x[2] # << >> /\ t.item = Head(x[2])
                 /\ x[3] = Tail(x[2])
                 /\ ~has(x[3], t.item)
       /\ Len(x[3]) < Len(x[2]) => x[3] = Tail(x[2]) /\ ~has(x[3], Head(x[2]))]_vars

\* two whois callbacks are suspended at their lookups at once, the one of wallet
\* and, begun while that one was waiting, the one of wllt
C29_Witness ==
  /\ {t.item : t \in suspended("whois", "call")} = {WALLET, WLLT}
  /\ BagCardinality(inflight.whois) = 2

\* C30: an item at the head of a queue is taken by the next callback of its daemon:
\* while the process runs, the daemon of every queue that holds something has a step
\* that takes the head off, so no pending item keeps those behind it from being
\* taken.
C30_HeadIsTaken ==
  exited = "running"
    => /\ translationQueue # << >>
            => ENABLED (TranslationTick /\ dequeued(translationQueue, translationQueue'))
       /\ synonymQueue # << >>
            => ENABLED (SynonymTick /\ dequeued(synonymQueue, synonymQueue'))
       /\ webificationQueue # << >>
            => ENABLED (WebificationTick /\ dequeued(webificationQueue, webificationQueue'))
       /\ whoisQueue # << >>
            => ENABLED (WhoisTick /\ dequeued(whoisQueue, whoisQueue'))
       /\ ratingQueue # << >>
            => ENABLED (RatingTick /\ dequeued(ratingQueue, ratingQueue'))

\* what makes a violation of C30 permanent: an empty line at the head of a queue
\* is at its head after every step, and what is behind it stays behind it
C30_EmptyHeadStays ==
  [][\A x \in steps :
       x[2] # << >> /\ Head(x[2]) = EMPTY
         => /\ Len(x[3]) >= Len(x[2])
            /\ SubSeq(x[3], 1, Len(x[2])) = x[2]]_vars

\* the empty line is at the head of the whois queue with words behind it
C30_Blocked ==
  /\ Len(whoisQueue) > 1 /\ Head(whoisQueue) = EMPTY
  /\ \A d \in daemons : inflight[d] = EmptyBag

\* this step ends the callback t after its db.write()
completes(daemon, t) ==
  t.phase = "write" /\ inflight'[daemon] = inflight[daemon] (-) SetToBag({t})

\* what the translation forEach has done with the records ts in this step
translationsFannedOut(ts) ==
  LET cleaned == {ts[i].cleaned : i \in 1..Len(ts)}
  IN  /\ \A i \in 1..Len(ts) : has(webificationQueue', ts[i])
      /\ added(webificationQueue, webificationQueue') \subseteq Range(ts)
      /\ \A w \in cleaned \ {EMPTY} : has(whoisQueue', w)
      /\ added(whoisQueue, whoisQueue') = (cleaned \ {EMPTY}) \ Range(whoisQueue)

\* C31: a translation callback that runs to its end, on the records it found in
\* translationCache or on those getTranslations gave it, has added every record
\* to the webification queue and the cleaned form of every record that has one to
\* the whois queue; it adds no empty cleaned form, and nothing else, to the whois
\* queue.
C31_TranslatorFanOut ==
  [][/\ dequeued(translationQueue, translationQueue')
          /\ Head(translationQueue) \in DOMAIN db.translationCache
        => translationsFannedOut(db.translationCache[Head(translationQueue)])
     /\ \A t \in suspended("translation", "write") :
          completes("translation", t) => translationsFannedOut(t.val)]_vars

\* wallet was translated into portafoglio and into "..", whose cleaned form is
\* empty; the callback has ended, both records are in the webification queue,
\* portafoglio is in the whois queue and the empty string is not
C31_Witness ==
  /\ file = File(WALLET)
  /\ inflight.translation = EmptyBag
  /\ WALLET \in DOMAIN db.translationCache
  /\ Len(db.translationCache[WALLET]) = 2
  /\ db.translationCache[WALLET][2].cleaned = EMPTY
  /\ \A i \in 1..2 : has(webificationQueue, db.translationCache[WALLET][i])
  /\ has(whoisQueue, PORTAFOGLIO) /\ ~has(whoisQueue, EMPTY)

\* what the webification forEach has done with a record and its variants
webifiedFannedOut(record, webifiedWords) ==
  LET words == ({record.cleaned} \cup Range(webifiedWords)) \ {EMPTY}
  IN  /\ \A w \in words : has(whoisQueue', w)
      /\ added(whoisQueue, whoisQueue') = words \ Range(whoisQueue)

\* C32: a webification callback that runs to its end, on the variants it found in
\* webifiedCache or on the list getWebifiedWords gave it (an empty list when the
\* language model answered nothing usable), has added the record's cleaned form and
\* every variant to the whois queue, empty strings left out; it adds nothing else
\* to the whois queue.
C32_WebifierFanOut ==
  [][/\ dequeued(webificationQueue, webificationQueue')
          /\ Head(webificationQueue).cleaned \in DOMAIN db.webifiedCache
        => webifiedFannedOut(Head(webificationQueue),
                             db.webifiedCache[Head(webificationQueue).cleaned].webifiedWords)
     /\ \A t \in suspended("webification", "write") :
          completes("webification", t) => webifiedFannedOut(t.item, t.val)]_vars

\* both records of wallet's translations have been through the webifier: portafoglio
\* gave wllt, the record with the empty cleaned form gave an empty list; wllt is in
\* the whois queue and the empty string is not
C32_Witness ==
  /\ file = File(WALLET)
  /\ WALLET \in DOMAIN db.translationCache /\ Len(db.translationCache[WALLET]) = 2
  /\ {PORTAFOGLIO, EMPTY} \subseteq DOMAIN db.webifiedCache
  /\ db.webifiedCache[PORTAFOGLIO].webifiedWords = <<WLLT>>
  /\ db.webifiedCache[EMPTY].webifiedWords = << >>
  /\ inflight.webification = EmptyBag
  /\ has(whoisQueue, WLLT) /\ ~has(whoisQueue, EMPTY)

\* { word: _word, language: English, translation: { raw: _word, cleaned: _word } }
pseudoTranslation(synonym) ==
  [word |-> synonym, language |-> English, raw |-> synonym, cleaned |-> synonym]

\* what the synonym forEach has done with the list in this step: a record is made
\* for every non-empty synonym, and each is a new object
synonymsFannedOut(synonyms) ==
  LET words == Range(synonyms) \ {EMPTY}
      made == added(webificationQueue, webificationQueue')
  IN  /\ \A w \in words : has(whoisQueue', w)
      /\ added(whoisQueue, whoisQueue') = words \ Range(whoisQueue)
      /\ \A w \in words : \E r \in made : content(r) = pseudoTranslation(w)
      /\ \A r \in made : \E w \in words : content(r) = pseudoTranslation(w)
      /\ Cardinality(made) = Len(SelectSeq(synonyms, LAMBDA w : w # EMPTY))

\* C33: a synonym callback that runs to its end, on the list it found in
\* synonymsCache or on the one getSynonyms gave it, has added every non-empty
\* synonym to the whois queue and, for each, a record to the webification queue
\* whose language is English and whose word, raw and cleaned are the synonym.
C33_SynonymFanOut ==
  [][/\ dequeued(synonymQueue, synonymQueue')
          /\ Head(synonymQueue) \in DOMAIN db.synonymsCache
        => synonymsFannedOut(db.synonymsCache[Head(synonymQueue)])
     /\ \A t \in suspended("synonym", "write") :
          completes("synonym", t) => synonymsFannedOut(t.val)]_vars

\* the language model gave ["Purse", "", "purse"] for ab; the callback has ended,
\* purse is in the whois queue and two English records of purse are in the
\* webification queue
C33_Witness ==
  /\ file = File(AB)
  /\ AB \in DOMAIN db.synonymsCache /\ db.synonymsCache[AB] = <<PURSE, PURSE>>
  /\ inflight.synonym = EmptyBag
  /\ has(whoisQueue, PURSE)
  /\ Cardinality({i \in 1..Len(webificationQueue) :
                    content(webificationQueue[i]) = pseudoTranslation(PURSE)}) = 2

\* a step of a rating callback: it takes a word off the rating queue, or it comes
\* back from rateName or from db.write()
raterStep ==
  \/ dequeued(ratingQueue, ratingQueue')
  \/ inflight'.rating # inflight.rating

\* the words of the rating callbacks that this step moves on
ratedNow ==
  {t.item : t \in {x \in BagToSet(inflight.rating) :
                     CopiesIn(x, inflight'.rating) < CopiesIn(x, inflight.rating)}}

\* C34: the rater is the last stage.  A step of a rating callback leaves the other
\* five queues, the other four partitions, the other daemons' callbacks and the
\* watcher's state as they were; of the rating queue it changes nothing or takes
\* off the head; of ratingsCache it changes at most the entry of the word it is
\* rating.
C34_RaterIsTerminal ==
  [][raterStep
       => /\ UNCHANGED <<translationQueue, webificationQueue, synonymQueue, whoisQueue,
                         searchQueue>>
          /\ ratingQueue' = ratingQueue
               \/ (ratingQueue # << >> /\ ratingQueue' = Tail(ratingQueue))
          /\ \A c \in partitions \ {"ratingsCache"} : db'[c] = db[c]
          /\ \A d \in daemons \ {"rating"} : inflight'[d] = inflight[d]
          /\ UNCHANGED <<file, localBaseWordCache, literals, exited>>
          /\ db'.ratingsCache # db.ratingsCache
               => \E w \in ratedNow : sameBut("ratingsCache", w)]_vars

\* the rater was called for wllt, has stored its rating and has ended; every queue
\* is empty
C34_Witness ==
  /\ CopiesIn(<<"rating", WLLT>>, calls) = 1
  /\ WLLT \in DOMAIN db.ratingsCache /\ db.ratingsCache[WLLT] = Number(91)
  /\ inflight.rating = EmptyBag
  /\ allQueuesEmpty

====
